---- MODULE Spec2Model ----
(***************************************************************************)
(* State-machine model of the temperature scraper                          *)
(* (src/temperature_scraper.py) and of its Tk dashboard                    *)
(* (src/dashboard_gui.py).                                                 *)
(*                                                                         *)
(* Two programs are modelled: the command line program main() of the       *)
(* scraper module and the dashboard, whose user-interface events run on    *)
(* the Tk thread while each fetch runs on a worker thread.                 *)
(***************************************************************************)
EXTENDS Integers, Sequences, FiniteSets, TLC

VARIABLES
    program,            \* "cli": temperature_scraper.main(), "gui": the dashboard
    clock,              \* the wall clock, in whole seconds (datetime.now())
    temperature_data,   \* TemperatureScraper.temperature_data
    files,              \* the output directory: path -> [content, writes]
    thr,                \* the threads that run scrape_weather_data
    fetch_button,       \* state of TemperatureDashboard.fetch_button
    export_csv_button,  \* state of TemperatureDashboard.export_csv_button
    export_json_button, \* state of TemperatureDashboard.export_json_button
    data_df,            \* TemperatureDashboard.data_df
    tree,               \* rows of the dashboard's table
    summary,            \* the summary last computed (dashboard text or printout)
    status,             \* what status_label shows
    dialog,             \* the message box last shown
    saved,              \* what the last save_to_csv / save_to_json call returned
    nRuns,              \* fetch workers started so far
    nExports,           \* export handler invocations so far
    tie_order,          \* how the installed sort orders equal keys
    req,                \* input of the fetcher in SpecFetch
    ret                 \* its result

vars == <<program, clock, temperature_data, files, thr, fetch_button,
          export_csv_button, export_json_button, data_df, tree, summary,
          status, dialog, saved, nRuns, nExports, tie_order, req, ret>>

----------------------------------------------------------------------------
(* Bounds of the model *)

\* how many cities of the city list a run iterates
NumCities == 2
\* how many fetch clicks the dashboard user makes
MaxRuns == 2
\* how many seconds the clock advances
MaxClock == 1
\* how many export clicks the dashboard user makes
MaxExports == 2
\* the longest record list summarised in SpecSummary
MaxSummaryLen == 6

----------------------------------------------------------------------------
(* TemperatureScraper.__init__ *)

AllCities ==
    << "New Delhi", "Kolkata", "Mumbai", "Chennai", "Bangalore",
       "Hyderabad", "Pune", "Gurgaon", "Lucknow", "Guwahati",
       "Bhubaneswar", "Ahmedabad", "Jaipur", "Dehradun", "Shimla" >>

cities == SubSeq(AllCities, 1, NumCities)

\* the keys of a record, in the order the dict literal inserts them
Columns ==
    << "City", "Min Temp (C)", "Max Temp (C)", "Current Condition",
       "Humidity (%)", "Wind Speed (km/h)", "Fetched At" >>

----------------------------------------------------------------------------
(* The weather service's answers.  The service sends every scalar as a     *)
(* string; float() and int() parse it.                                     *)

NumericStrings == {"1", "2", "12", "60"}

\* float(s) / int(s) of a numeric string
ParseNumber(s) ==
    CASE s = "1" -> 1
      [] s = "2" -> 2
      [] s = "12" -> 12
      [] s = "60" -> 60

\* the temperatures the modelled service reports
TempStrings == {"1", "2"}

GoodCondition ==
    [weatherDesc |-> << [value |-> "Sunny"] >>, humidity |-> "60",
     windspeedKmph |-> "12"]

GoodData(mn, mx) ==
    [current_condition |-> << GoodCondition >>,
     weather |-> << [mintempC |-> mn, maxtempC |-> mx] >>]

GoodWeather == << [mintempC |-> "1", maxtempC |-> "2"] >>

\* a well-formed answer
GoodResponses ==
    {[kind |-> "body", json |-> TRUE, shape |-> "good", data |-> GoodData(mn, mx)] :
        mn \in TempStrings, mx \in TempStrings}

\* a JSON body whose shape is not the expected one
MalformedJson ==
    { [kind |-> "body", json |-> TRUE, shape |-> "no_current_condition",
       data |-> [weather |-> GoodWeather]],
      [kind |-> "body", json |-> TRUE, shape |-> "empty_current_condition",
       data |-> [current_condition |-> << >>, weather |-> GoodWeather]],
      [kind |-> "body", json |-> TRUE, shape |-> "no_weather",
       data |-> [current_condition |-> << GoodCondition >>]],
      [kind |-> "body", json |-> TRUE, shape |-> "empty_weather",
       data |-> [current_condition |-> << GoodCondition >>, weather |-> << >>]],
      [kind |-> "body", json |-> TRUE, shape |-> "no_mintempC",
       data |-> [current_condition |-> << GoodCondition >>,
                 weather |-> << [maxtempC |-> "2"] >>]],
      [kind |-> "body", json |-> TRUE, shape |-> "no_weatherDesc",
       data |-> [current_condition |-> << [humidity |-> "60", windspeedKmph |-> "12"] >>,
                 weather |-> GoodWeather]],
      [kind |-> "body", json |-> TRUE, shape |-> "empty_weatherDesc",
       data |-> [current_condition |->
                    << [weatherDesc |-> << >>, humidity |-> "60",
                        windspeedKmph |-> "12"] >>,
                 weather |-> GoodWeather]],
      [kind |-> "body", json |-> TRUE, shape |-> "no_humidity",
       data |-> [current_condition |->
                    << [weatherDesc |-> << [value |-> "Sunny"] >>,
                        windspeedKmph |-> "12"] >>,
                 weather |-> GoodWeather]],
      [kind |-> "body", json |-> TRUE, shape |-> "bad_maxtempC",
       data |-> GoodData("1", "N/A")],
      [kind |-> "body", json |-> TRUE, shape |-> "bad_humidity",
       data |-> [current_condition |->
                    << [weatherDesc |-> << [value |-> "Sunny"] >>,
                        humidity |-> "N/A", windspeedKmph |-> "12"] >>,
                 weather |-> GoodWeather]] }

\* a body that is not JSON at all
NonJsonResponse ==
    [kind |-> "body", json |-> FALSE, shape |-> "non_json", data |-> [raw |-> "<html>"]]

\* timeout, DNS failure, refused connection, or a non-2xx status
NetworkFailure ==
    [kind |-> "request_exception", json |-> FALSE, shape |-> "network",
     data |-> [raw |-> ""]]

MalformedResponses == MalformedJson \cup {NonJsonResponse}

Responses == GoodResponses \cup MalformedResponses \cup {NetworkFailure}

----------------------------------------------------------------------------
(* TemperatureScraper._fetch_city_temperature                              *)

NoRecord ==
    [City |-> "", MinTemp |-> 0, MaxTemp |-> 0, CurrentCondition |-> "",
     Humidity |-> 0, WindSpeed |-> 0, FetchedAt |-> 0]

\* the three ways a call ends: a record, None, or an exception that escapes
Returned(rec) == [kind |-> "record", exc |-> "", rec |-> rec]
ReturnedNone == [kind |-> "None", exc |-> "", rec |-> NoRecord]
Raised(e) == [kind |-> "raise", exc |-> e, rec |-> NoRecord]

\* what an exception raised inside the try block of the fetcher becomes:
\* RequestException, KeyError and JSONDecodeError are caught and give None,
\* anything else leaves the function
FetcherCatches(e) ==
    IF e \in {"RequestException", "KeyError", "JSONDecodeError"}
    THEN ReturnedNone
    ELSE Raised(e)

\* lines 69-77: the conversions, in the order the dict literal evaluates them
BuildRecord(city, min_temp, max_temp, condition, humidity, wind_speed, now) ==
    IF min_temp \notin NumericStrings \/ max_temp \notin NumericStrings
       \/ humidity \notin NumericStrings \/ wind_speed \notin NumericStrings
    THEN FetcherCatches("ValueError")
    ELSE Returned([City |-> city,
                   MinTemp |-> ParseNumber(min_temp),
                   MaxTemp |-> ParseNumber(max_temp),
                   CurrentCondition |-> condition,
                   Humidity |-> ParseNumber(humidity),
                   WindSpeed |-> ParseNumber(wind_speed),
                   FetchedAt |-> now])

\* lines 61-67: the lookups, in source order
ExtractFields(city, data, now) ==
    IF "current_condition" \notin DOMAIN data THEN FetcherCatches("KeyError")
    ELSE IF Len(data.current_condition) = 0 THEN FetcherCatches("IndexError")
    ELSE LET current_condition == data.current_condition[1] IN
    IF "weather" \notin DOMAIN data THEN FetcherCatches("KeyError")
    ELSE IF Len(data.weather) = 0 THEN FetcherCatches("IndexError")
    ELSE LET weather == data.weather[1] IN
    IF "mintempC" \notin DOMAIN weather THEN FetcherCatches("KeyError")
    ELSE IF "maxtempC" \notin DOMAIN weather THEN FetcherCatches("KeyError")
    ELSE IF "weatherDesc" \notin DOMAIN current_condition THEN FetcherCatches("KeyError")
    ELSE IF Len(current_condition.weatherDesc) = 0 THEN FetcherCatches("IndexError")
    ELSE IF "value" \notin DOMAIN current_condition.weatherDesc[1]
         THEN FetcherCatches("KeyError")
    ELSE IF "humidity" \notin DOMAIN current_condition THEN FetcherCatches("KeyError")
    ELSE IF "windspeedKmph" \notin DOMAIN current_condition
         THEN FetcherCatches("KeyError")
    ELSE BuildRecord(city, weather.mintempC, weather.maxtempC,
                     current_condition.weatherDesc[1].value,
                     current_condition.humidity,
                     current_condition.windspeedKmph, now)

FetchCityTemperature(city, resp, now) ==
    IF resp.kind = "request_exception" THEN FetcherCatches("RequestException")
    ELSE IF ~resp.json THEN FetcherCatches("JSONDecodeError")
    ELSE ExtractFields(city, resp.data, now)

----------------------------------------------------------------------------
(* pandas: DataFrame construction, sort_values, nlargest, nsmallest        *)

\* pd.DataFrame(list of dicts): the columns are the keys of the dicts, so a
\* frame built from an empty list has no column at all
DataFrame(data) ==
    [some |-> TRUE,
     columns |-> IF Len(data) = 0 THEN << >> ELSE Columns,
     rows |-> data]

\* data_df before the first fetch
NoneFrame == [some |-> FALSE, columns |-> << >>, rows |-> << >>]

HasColumn(df, c) == \E k \in 1..Len(df.columns) : df.columns[k] = c

MaxTempOf(rows) == [k \in 1..Len(rows) |-> rows[k].MaxTemp]
MinTempOf(rows) == [k \in 1..Len(rows) |-> rows[k].MinTemp]

\* key a goes before key b
GoesBefore(a, b, ascending) == IF ascending THEN a < b ELSE a > b

\* the positions in S whose key no other position of S goes before
Firsts(keys, S, ascending) ==
    {i \in S : \A j \in S : ~GoesBefore(keys[j], keys[i], ascending)}

\* the positions S ordered by key; of equal keys the earlier position comes
\* first (ties = "original") or last (ties = "reversed")
RECURSIVE Order(_, _, _, _)
Order(keys, S, ascending, ties) ==
    IF S = {} THEN << >>
    ELSE LET F == Firsts(keys, S, ascending)
             i == IF ties = "original"
                  THEN CHOOSE x \in F : \A y \in F : x <= y
                  ELSE CHOOSE x \in F : \A y \in F : x >= y
         IN  <<i>> \o Order(keys, S \ {i}, ascending, ties)

\* a stable sort (mergesort) keeps equal keys in their original order
StableOrder(keys, S, ascending) == Order(keys, S, ascending, "original")

\* The default sort of sort_values is quicksort, which is not stable: the
\* order it gives equal keys depends on the installed numpy.  Of the orders
\* it may give, the model takes the two extreme ones.
TieOrders == {"original", "reversed"}

Take(rows, order) == [k \in 1..Len(order) |-> rows[order[k]]]

\* sort_values with the direction of the sort inverted
SortValuesInverted(rows, keys, ascending) ==
    Take(rows, Order(keys, 1..Len(rows), ~ascending, tie_order))

\* df.sort_values(column, ascending=...)
SortValues(rows, keys, ascending) ==
    Take(rows, Order(keys, 1..Len(rows), ascending, tie_order))

\* Series.nlargest / nsmallest (keep='first'): with n >= len the rows are sorted
\* by sort_values and cut to n; otherwise the n first-ranked rows are selected
\* with a stable sort, the earlier of equal keys first
SelectN(rows, keys, n, ascending) ==
    IF n >= Len(rows)
    THEN SortValues(rows, keys, ascending)
    ELSE Take(rows, SubSeq(StableOrder(keys, 1..Len(rows), ascending), 1, n))

\* how many rows the summaries list
TopN == 5

NLargest(rows) == SelectN(rows, MaxTempOf(rows), TopN, FALSE)
NSmallest(rows) == SelectN(rows, MinTempOf(rows), TopN, TRUE)

----------------------------------------------------------------------------
(* The two file formats *)

\* DataFrame.to_csv(index=False): a header row, then one row of cells per record
CsvRow(r) ==
    << r.City, r.MinTemp, r.MaxTemp, r.CurrentCondition, r.Humidity,
       r.WindSpeed, r.FetchedAt >>

ToCsv(rows) == [fmt |-> "csv", header |-> Columns,
                body |-> [k \in 1..Len(rows) |-> CsvRow(rows[k])]]

\* json.dump of the list of dicts: one object per record, its members in
\* insertion order
JsonObject(r) ==
    << <<"City", r.City>>, <<"Min Temp (C)", r.MinTemp>>,
       <<"Max Temp (C)", r.MaxTemp>>, <<"Current Condition", r.CurrentCondition>>,
       <<"Humidity (%)", r.Humidity>>, <<"Wind Speed (km/h)", r.WindSpeed>>,
       <<"Fetched At", r.FetchedAt>> >>

JsonDump(data) == [fmt |-> "json", header |-> << >>,
                   body |-> [k \in 1..Len(data) |-> JsonObject(data[k])]]

----------------------------------------------------------------------------
(* State shared by the two programs *)

Threads == 1..MaxRuns

\* a thread that is not running: no run in progress on it
IdleThread ==
    [pc |-> "idle", i |-> 0, attempts |-> << >>, got |-> << >>,
     result |-> << >>, exc |-> ""]

\* a thread entering scrape_weather_data
StartedThread == [IdleThread EXCEPT !.pc = "scrape", !.i = 1]

NoSummary == [count |-> 0, top_hot |-> << >>, top_cold |-> << >>]

NoRequest == [city |-> "", resp |-> NetworkFailure, now |-> 0]
Pending == [kind |-> "pending", exc |-> "", rec |-> NoRecord]

\* the widgets and fields TemperatureDashboard.__init__ sets up (in the command
\* line program they stay as they are here)
DashboardConstructed ==
    /\ fetch_button = "normal"
    /\ export_csv_button = "disabled"
    /\ export_json_button = "disabled"
    /\ data_df = NoneFrame
    /\ tree = << >>
    /\ summary = NoSummary
    /\ status = "ready"
    /\ dialog = "none"
    /\ nRuns = 0
    /\ nExports = 0

\* the state right after TemperatureScraper() and, in the dashboard,
\* TemperatureDashboard(root) are constructed
Constructed ==
    /\ clock = 0
    /\ temperature_data = << >>
    /\ files = << >>
    /\ saved = "none"
    /\ tie_order \in TieOrders
    /\ DashboardConstructed
    /\ req = NoRequest
    /\ ret = Pending

\* the clock moves on by a second
Tick ==
    /\ clock < MaxClock
    /\ clock' = clock + 1
    /\ UNCHANGED <<program, temperature_data, files, thr, fetch_button,
                   export_csv_button, export_json_button, data_df, tree,
                   summary, status, dialog, saved, nRuns, nExports, tie_order, req, ret>>

----------------------------------------------------------------------------
(* TemperatureScraper.scrape_weather_data *)

\* the loop body without its except clause: an exception of the fetcher leaves
\* scrape_weather_data
LoopBodyUncaught(out) ==
    CASE out.kind = "record" -> "append"
      [] out.kind = "None" -> "skip"
      [] out.kind = "raise" -> "abort"

\* what one pass of the loop body does with the fetcher's outcome: a record is
\* appended, None is reported, and the except clause swallows any exception
LoopBody(out) ==
    CASE out.kind = "record" -> "append"
      [] out.kind = "None" -> "skip"
      [] out.kind = "raise" -> "skip"

\* one iteration of the for loop, on thread t
ScrapeStep(t) ==
    /\ thr[t].pc = "scrape"
    /\ thr[t].i <= Len(cities)
    /\ \E resp \in Responses :
        LET city == cities[thr[t].i]
            out == FetchCityTemperature(city, resp, clock)
            does == LoopBody(out)
        IN  /\ temperature_data' =
                 IF does = "append" THEN Append(temperature_data, out.rec)
                 ELSE temperature_data
            /\ thr' = [thr EXCEPT
                 ![t].attempts = Append(@, city),
                 ![t].got = IF does = "append" THEN Append(@, out.rec) ELSE @,
                 ![t].i = IF does = "abort" THEN Len(cities) + 1 ELSE @ + 1,
                 ![t].exc = IF does = "abort" THEN out.exc ELSE @]
    /\ UNCHANGED <<program, clock, files, fetch_button, export_csv_button,
                   export_json_button, data_df, tree, summary, status, dialog,
                   saved, nRuns, nExports, tie_order, req, ret>>

\* the loop is over: return self.temperature_data to the caller
ScrapeReturn(t) ==
    /\ thr[t].pc = "scrape"
    /\ thr[t].i > Len(cities)
    /\ thr' = [thr EXCEPT
         ![t].result = IF thr[t].exc = "" THEN temperature_data ELSE @,
         ![t].pc = IF program = "cli"
                   THEN (IF thr[t].exc = "" THEN "display_summary" ELSE "crashed")
                   ELSE "render"]
    /\ UNCHANGED <<program, clock, temperature_data, files, fetch_button,
                   export_csv_button, export_json_button, data_df, tree,
                   summary, status, dialog, saved, nRuns, nExports, tie_order, req, ret>>

----------------------------------------------------------------------------
(* TemperatureScraper.save_to_csv, save_to_json, display_summary *)

\* the emptiness test left out
NoDataNeverHolds(data) == FALSE

\* "if not self.temperature_data": nothing to save or to show
NoData(data) == Len(data) = 0

\* the file named after the second the export runs in
ExportPath(fmt, now) == <<fmt, now>>

\* opening a path for writing creates the file or replaces its content
WriteFile(fs, path, content) ==
    [q \in (DOMAIN fs) \cup {path} |->
        IF q = path
        THEN [content |-> content,
              writes |-> IF path \in DOMAIN fs THEN fs[path].writes + 1 ELSE 1]
        ELSE fs[q]]

\* save_to_csv(): the state it leaves
save_to_csv ==
    IF NoData(temperature_data)
    THEN /\ saved' = "None"
         /\ files' = files
    ELSE LET sorted == SortValues(temperature_data, MaxTempOf(temperature_data), FALSE)
         IN  /\ files' = WriteFile(files, ExportPath("csv", clock), ToCsv(sorted))
             /\ saved' = "csv"

\* save_to_json(): the state it leaves
save_to_json ==
    IF NoData(temperature_data)
    THEN /\ saved' = "None"
         /\ files' = files
    ELSE /\ files' = WriteFile(files, ExportPath("json", clock),
                               JsonDump(temperature_data))
         /\ saved' = "json"

\* the top-5 tables of display_summary and of _update_summary
Summary(rows) ==
    [count |-> Len(rows), top_hot |-> NLargest(rows), top_cold |-> NSmallest(rows)]

----------------------------------------------------------------------------
(* temperature_scraper.main(): scrape, display_summary, save_to_csv,       *)
(* save_to_json, on thread 1                                               *)

\* scraper.display_summary()
MainDisplaySummary ==
    /\ program = "cli"
    /\ thr[1].pc = "display_summary"
    /\ IF NoData(temperature_data)
       THEN summary' = NoSummary
       ELSE summary' = Summary(temperature_data)
    /\ thr' = [thr EXCEPT ![1].pc = "save_to_csv"]
    /\ UNCHANGED <<program, clock, temperature_data, files, fetch_button,
                   export_csv_button, export_json_button, data_df, tree,
                   status, dialog, saved, nRuns, nExports, tie_order, req, ret>>

\* scraper.save_to_csv()
MainSaveCsv ==
    /\ program = "cli"
    /\ thr[1].pc = "save_to_csv"
    /\ save_to_csv
    /\ thr' = [thr EXCEPT ![1].pc = "save_to_json"]
    /\ UNCHANGED <<program, clock, temperature_data, fetch_button,
                   export_csv_button, export_json_button, data_df, tree,
                   summary, status, dialog, nRuns, nExports, tie_order, req, ret>>

\* scraper.save_to_json()
MainSaveJson ==
    /\ program = "cli"
    /\ thr[1].pc = "save_to_json"
    /\ save_to_json
    /\ thr' = [thr EXCEPT ![1].pc = "exit"]
    /\ UNCHANGED <<program, clock, temperature_data, fetch_button,
                   export_csv_button, export_json_button, data_df, tree,
                   summary, status, dialog, nRuns, nExports, tie_order, req, ret>>

\* a step of the main thread of the command line program
MainStep ==
    \/ (program = "cli" /\ ScrapeStep(1))
    \/ (program = "cli" /\ ScrapeReturn(1))
    \/ MainDisplaySummary
    \/ MainSaveCsv
    \/ MainSaveJson

----------------------------------------------------------------------------
(* The dashboard: events handled on the Tk thread *)

\* the fetch button left as it is
FetchButtonLeftEnabled == "normal"

\* the state _fetch_data_thread puts the fetch button in before it starts the
\* worker
FetchButtonWhileFetching == "disabled"

\* a click on "Fetch Temperature Data"; Tk delivers it only to an enabled
\* button.  _fetch_data_thread
FetchClick ==
    /\ program = "gui"
    /\ fetch_button = "normal"
    /\ nRuns < MaxRuns
    /\ fetch_button' = FetchButtonWhileFetching
    /\ status' = "fetching"
    /\ nRuns' = nRuns + 1
    /\ thr' = [thr EXCEPT ![nRuns + 1] = StartedThread]
    /\ UNCHANGED <<program, clock, temperature_data, files, export_csv_button,
                   export_json_button, data_df, tree, summary, dialog, saved,
                   nExports,
                   tie_order, req, ret>>

\* a click on "Export to CSV".  _export_csv
ExportCsvClick ==
    /\ program = "gui"
    /\ export_csv_button = "normal"
    /\ nExports < MaxExports
    /\ nExports' = nExports + 1
    /\ IF ~data_df.some
       THEN /\ dialog' = "warning: no data to export"
            /\ UNCHANGED <<files, saved>>
       ELSE /\ save_to_csv
            /\ dialog' = "info: exported to CSV"
    /\ UNCHANGED <<program, clock, temperature_data, thr, fetch_button,
                   export_csv_button, export_json_button, data_df, tree,
                   summary, status, nRuns, tie_order, req, ret>>

\* a click on "Export to JSON".  _export_json
ExportJsonClick ==
    /\ program = "gui"
    /\ export_json_button = "normal"
    /\ nExports < MaxExports
    /\ nExports' = nExports + 1
    /\ IF ~data_df.some
       THEN /\ dialog' = "warning: no data to export"
            /\ UNCHANGED <<files, saved>>
       ELSE /\ save_to_json
            /\ dialog' = "info: exported to JSON"
    /\ UNCHANGED <<program, clock, temperature_data, thr, fetch_button,
                   export_csv_button, export_json_button, data_df, tree,
                   summary, status, nRuns, tie_order, req, ret>>

----------------------------------------------------------------------------
(* The dashboard: _fetch_data on a worker thread *)

\* lines 150-172 once scrape_weather_data is over: build the frame, fill the
\* table and the summary, enable the exports; the except clause on an exception
WorkerRender(t) ==
    /\ program = "gui"
    /\ thr[t].pc = "render"
    /\ LET df == DataFrame(temperature_data) IN
       IF thr[t].exc # ""
       THEN \* scrape_weather_data raised
            /\ status' = "error"
            /\ dialog' = "error: failed to fetch data"
            /\ UNCHANGED <<data_df, tree, summary, export_csv_button,
                           export_json_button>>
       ELSE IF ~HasColumn(df, "Max Temp (C)")
       THEN \* _update_table: the rows are cleared, then sort_values raises
            \* KeyError
            /\ data_df' = df
            /\ tree' = << >>
            /\ status' = "error"
            /\ dialog' = "error: failed to fetch data"
            /\ UNCHANGED <<summary, export_csv_button, export_json_button>>
       ELSE /\ data_df' = df
            /\ tree' = SortValues(df.rows, MaxTempOf(df.rows), FALSE)
            /\ summary' = Summary(df.rows)
            /\ export_csv_button' = "normal"
            /\ export_json_button' = "normal"
            /\ status' = "fetched"
            /\ dialog' = dialog
    /\ thr' = [thr EXCEPT ![t].pc = "finally"]
    /\ UNCHANGED <<program, clock, temperature_data, files, fetch_button,
                   saved, nRuns, nExports, tie_order, req, ret>>

\* the finally clause: the fetch button is enabled again and the thread ends
WorkerFinally(t) ==
    /\ program = "gui"
    /\ thr[t].pc = "finally"
    /\ fetch_button' = "normal"
    /\ thr' = [thr EXCEPT ![t] = IdleThread]
    /\ UNCHANGED <<program, clock, temperature_data, files, export_csv_button,
                   export_json_button, data_df, tree, summary, status, dialog,
                   saved, nRuns, nExports, tie_order, req, ret>>

\* a step of worker thread t
WorkerStep(t) ==
    \/ (program = "gui" /\ ScrapeStep(t))
    \/ (program = "gui" /\ ScrapeReturn(t))
    \/ WorkerRender(t)
    \/ WorkerFinally(t)

----------------------------------------------------------------------------
(* The specifications *)

\* the command line program, right after TemperatureScraper() is constructed:
\* main() goes straight into scrape_weather_data
InitCli ==
    /\ program = "cli"
    /\ Constructed
    /\ thr = [t \in Threads |-> IF t = 1 THEN StartedThread ELSE IdleThread]

NextCli ==
    \/ Tick
    \/ MainStep

SpecCli == InitCli /\ [][NextCli]_vars

\* the operating system keeps scheduling the main thread while it is inside
\* scrape_weather_data (each request times out after 10 seconds and each sleep
\* ends after one)
FairSpecCli == SpecCli /\ WF_vars(ScrapeStep(1) \/ ScrapeReturn(1))

\* the dashboard, right after TemperatureDashboard(root) is constructed
InitGui ==
    /\ program = "gui"
    /\ Constructed
    /\ thr = [t \in Threads |-> IdleThread]

NextGui ==
    \/ Tick
    \/ FetchClick
    \/ ExportCsvClick
    \/ ExportJsonClick
    \/ \E t \in Threads : WorkerStep(t)

SpecGui == InitGui /\ [][NextGui]_vars

\* either program
Init == InitCli \/ InitGui

Next == NextCli \/ NextGui

Spec == Init /\ [][Next]_vars

----------------------------------------------------------------------------
(* _fetch_city_temperature on its own: one call, on any answer of the     *)
(* service                                                                 *)

InitFetch ==
    /\ program = "cli"
    /\ clock \in 0..MaxClock
    /\ temperature_data = << >>
    /\ files = << >>
    /\ saved = "none"
    /\ tie_order \in TieOrders
    /\ DashboardConstructed
    /\ thr = [t \in Threads |-> IF t = 1 THEN StartedThread ELSE IdleThread]
    /\ req \in [city : {cities[k] : k \in 1..Len(cities)}, resp : Responses,
                now : {clock}]
    /\ ret = Pending

\* temp_data = self._fetch_city_temperature(city)
FetchCall ==
    /\ ret = Pending
    /\ ret' = FetchCityTemperature(req.city, req.resp, req.now)
    /\ UNCHANGED <<program, clock, temperature_data, files, thr, fetch_button,
                   export_csv_button, export_json_button, data_df, tree,
                   summary, status, dialog, saved, nRuns, nExports,
                   tie_order, req>>

SpecFetch == InitFetch /\ [][FetchCall]_vars

----------------------------------------------------------------------------
(* display_summary on its own: main() has scraped any list of records and  *)
(* is about to print the summary                                           *)

SummaryTemps == {1, 2}

\* a record list in city-list order
ResultSets ==
    UNION { { [k \in 1..n |->
                 [City |-> AllCities[k], MinTemp |-> mn[k], MaxTemp |-> mx[k],
                  CurrentCondition |-> "Sunny", Humidity |-> 60,
                  WindSpeed |-> 12, FetchedAt |-> 0]] :
              mn \in [1..n -> SummaryTemps], mx \in [1..n -> SummaryTemps] } :
            n \in 1..MaxSummaryLen }

InitSummary ==
    /\ program = "cli"
    /\ clock = 0
    /\ temperature_data \in ResultSets
    /\ files = << >>
    /\ saved = "none"
    /\ tie_order \in TieOrders
    /\ DashboardConstructed
    /\ thr = [t \in Threads |->
                IF t = 1 THEN [IdleThread EXCEPT !.pc = "display_summary"]
                ELSE IdleThread]
    /\ req = NoRequest
    /\ ret = Pending

SpecSummary == InitSummary /\ [][MainDisplaySummary]_vars

----------------------------------------------------------------------------
(* Helpers of the properties *)

Running(t) == thr[t].pc = "scrape"

Empty(rows) == rows = << >>

\* scrape_weather_data has returned on thread t and its caller has not yet
\* gone on
JustReturned(t) == thr[t].pc \in {"display_summary", "render"} /\ thr[t].exc = ""

Active == {t \in Threads : thr[t].pc # "idle"}

\* how often record r occurs in the list rows
Occurrences(r, rows) == Cardinality({k \in 1..Len(rows) : rows[k] = r})

SameRecords(a, b) ==
    /\ Len(a) = Len(b)
    /\ \A k \in 1..Len(a) : Occurrences(a[k], a) = Occurrences(a[k], b)

\* reading a CSV file back: each cell under the column its header names
Cell(header, row, name) == row[CHOOSE k \in 1..Len(header) : header[k] = name]

ParseCsv(content) ==
    [k \in 1..Len(content.body) |->
        [City |-> Cell(content.header, content.body[k], "City"),
         MinTemp |-> Cell(content.header, content.body[k], "Min Temp (C)"),
         MaxTemp |-> Cell(content.header, content.body[k], "Max Temp (C)"),
         CurrentCondition |->
             Cell(content.header, content.body[k], "Current Condition"),
         Humidity |-> Cell(content.header, content.body[k], "Humidity (%)"),
         WindSpeed |-> Cell(content.header, content.body[k], "Wind Speed (km/h)"),
         FetchedAt |-> Cell(content.header, content.body[k], "Fetched At")]]

\* reading a JSON file back: each member by its name
Member(obj, name) == obj[CHOOSE k \in 1..Len(obj) : obj[k][1] = name][2]

ParseJson(content) ==
    [k \in 1..Len(content.body) |->
        [City |-> Member(content.body[k], "City"),
         MinTemp |-> Member(content.body[k], "Min Temp (C)"),
         MaxTemp |-> Member(content.body[k], "Max Temp (C)"),
         CurrentCondition |-> Member(content.body[k], "Current Condition"),
         Humidity |-> Member(content.body[k], "Humidity (%)"),
         WindSpeed |-> Member(content.body[k], "Wind Speed (km/h)"),
         FetchedAt |-> Member(content.body[k], "Fetched At")]]

NonIncreasingMaxTemp(rows) ==
    \A k \in 1..(Len(rows) - 1) : rows[k].MaxTemp >= rows[k + 1].MaxTemp

\* the paths a step has written
Written == {q \in DOMAIN files' : q \notin DOMAIN files \/ files'[q] # files[q]}

\* the first min(n, M) rows ranked by key, the earlier of equal keys first
RankedFirst(rows, keys, n, ascending) ==
    LET o == StableOrder(keys, 1..Len(rows), ascending)
        m == IF n < Len(rows) THEN n ELSE Len(rows)
    IN  Take(rows, SubSeq(o, 1, m))

----------------------------------------------------------------------------
(* The properties *)

\* C1: whenever scrape_weather_data returns, on a first or a later call, what
\* it returns is exactly the records of that call's successful fetches, in
\* city-list order.
C1_ReturnsThisRunsRecords ==
    \A t \in Threads : JustReturned(t) => thr[t].result = thr[t].got

\* C2: a failed fetch (None or an exception of the fetcher) never aborts the
\* run: while it runs the cities attempted are exactly the cities before the
\* loop position, once each and in list order; when it is over every city was
\* attempted and the record list was returned; and a run that has started
\* does return.
C2_RunNeverAborted ==
    /\ [](\A t \in Threads :
            Running(t) => thr[t].attempts = SubSeq(cities, 1, thr[t].i - 1))
    /\ [](\A t \in Threads :
            thr[t].pc \notin {"idle", "scrape"} =>
                /\ thr[t].attempts = cities
                /\ thr[t].exc = ""
                /\ thr[t].pc # "crashed")
    /\ [][\A t \in Threads :
            Running(t) /\ ~Running(t)' => thr'[t].result = temperature_data]_vars
    /\ (Running(1) ~> thr[1].pc = "display_summary")

\* a run is over in which some fetch failed and a later city still gave a record
C2_Witness ==
    /\ thr[1].pc = "display_summary"
    /\ thr[1].attempts = cities
    /\ Len(thr[1].got) = 1
    /\ thr[1].got[1].City = cities[Len(cities)]

\* C3: on every malformed answer the fetcher returns its failure value (None)
\* and lets no exception escape.
C3_MalformedGivesFailureValue ==
    (ret # Pending /\ req.resp \in MalformedResponses) => ret.kind = "None"

C5_NoReadDuringRun ==
    [][nExports' # nExports => \A t \in Threads : ~Running(t)]_vars

\* C6: no export writes a path that an earlier export wrote.
C6_EveryExportFresh ==
    \A q \in DOMAIN files : files[q].writes = 1

\* C7: every file an export writes holds the records of the (non-empty) record
\* list: a JSON file the same records in the same order, a CSV file the same
\* records, each as often, by non-increasing maximum temperature; and the
\* export leaves the record list as it was.
C7_ExportsHoldTheRecords ==
    [][\A q \in Written :
          /\ temperature_data' = temperature_data
          /\ ~Empty(temperature_data)
          /\ files'[q].content.fmt = q[1]
          /\ IF q[1] = "json"
             THEN ParseJson(files'[q].content) = temperature_data
             ELSE /\ SameRecords(ParseCsv(files'[q].content), temperature_data)
                  /\ files'[q].content.header = Columns
                  /\ NonIncreasingMaxTemp(ParseCsv(files'[q].content))]_vars

\* both formats were exported from a list the CSV export had to reorder
C7_Witness ==
    \E c \in DOMAIN files, j \in DOMAIN files :
        /\ c[1] = "csv"
        /\ j[1] = "json"
        /\ ParseJson(files[j].content) = temperature_data
        /\ Len(temperature_data) >= 2
        /\ ParseCsv(files[c].content) # temperature_data
        /\ SameRecords(ParseCsv(files[c].content), temperature_data)

\* C8: the summary's top-5 lists have min(5, M) rows: the hottest by maximum
\* temperature, descending, and the coldest by minimum temperature, ascending,
\* the earlier of two records with equal temperature preferred and listed first.
C8_TopFiveEarlierFirst ==
    (thr[1].pc = "save_to_csv" /\ ~Empty(temperature_data)) =>
        /\ summary.top_hot =
              RankedFirst(temperature_data, MaxTempOf(temperature_data), TopN, FALSE)
        /\ summary.top_cold =
              RankedFirst(temperature_data, MinTempOf(temperature_data), TopN, TRUE)

\* C9: the dashboard ends a run in which every fetch failed and the record list
\* is empty without its error path: no error status, no error dialog.
C9_AllFailedRunIsNoError ==
    \A t \in Threads :
        (thr[t].pc = "finally" /\ thr[t].got = << >> /\ Empty(temperature_data)) =>
            (status = "fetched" /\ dialog = "none")

\* C10: at most one run is in progress in the dashboard: the fetch button is
\* disabled exactly while a worker exists, a fetch click is taken only from an
\* enabled button and disables it, and the button is enabled when the worker
\* ends, also after an error.
C10_OneRunAtATime ==
    /\ [](Cardinality(Active) <= 1)
    /\ []((fetch_button = "disabled") <=> (Active # {}))
    /\ [][nRuns' # nRuns =>
             (fetch_button = "normal" /\ fetch_button' = "disabled")]_vars
    /\ [][\A t \in Threads :
             (thr[t].pc # "idle" /\ thr'[t].pc = "idle") =>
                 fetch_button' = "normal"]_vars

\* a second run is in progress, the first one having ended in the error path
C10_Witness ==
    /\ nRuns = 2
    /\ status = "fetching"
    /\ dialog = "error: failed to fetch data"
    /\ fetch_button = "disabled"
    /\ \E t \in Threads : Running(t) /\ thr[t].i > 1

====
